---- MODULE Spec2Model ----
(***************************************************************************)
(* Soft delete for Django models (apps/common/models.py).                  *)
(*                                                                         *)
(* The stored table rows, the in-memory model instances held by callers    *)
(* and the clock read by now() are the state.  Each method of              *)
(* SoftDeleteQuerySet, SoftDeleteManager and SoftDeleteModel is one        *)
(* action.  The ORM primitives the methods call (QuerySet.update,          *)
(* Model.save, Model.delete / QuerySet.delete with its collector, the      *)
(* reverse related manager) are modelled by what Django does.              *)
(***************************************************************************)
EXTENDS FiniteSets, Integers, Sequences, TLC

\* ---- bounds ----
MaxClock == 2
NumSlots == 1

\* ---- the schema: concrete models deriving from SoftDeleteModel ----
\* "A" is a parent type, "B" has a ForeignKey to "A" with on_delete=CASCADE,
\* "C" has a ForeignKey to "B" with on_delete=CASCADE (a grandchild of "A"),
\* "D" has a ForeignKey to "A" with on_delete=DO_NOTHING, and "E", a plain
\* models.Model without the soft-delete fields, has a ForeignKey to "A" with
\* on_delete=CASCADE.
Rows == {"a1", "b1", "b2", "c1", "d1", "e1"}

NoPk == "None"

TypeOfRow ==
  [r \in Rows \cup {NoPk} |->
     CASE r \in {"a1"} -> "A"
       [] r \in {"b1", "b2"} -> "B"
       [] r \in {"c1"} -> "C"
       [] r \in {"d1"} -> "D"
       [] r \in {"e1"} -> "E"
       [] OTHER -> "None"]

TypeOf(r) == TypeOfRow[r]

\* the row the ForeignKey of r points to
ParentOfRow ==
  [r \in Rows \cup {NoPk} |->
     CASE r \in {"b1", "b2", "d1", "e1"} -> "a1"
       [] r \in {"c1"} -> "b1"
       [] OTHER -> NoPk]

Parent(r) == ParentOfRow[r]

RowsOfType == [t \in {TypeOfRow[r] : r \in Rows \cup {NoPk}} |-> {r \in Rows : TypeOfRow[r] = t}]

RowsOf(t) == RowsOfType[t]

Types == {"A", "B"}

\* self._meta.related_objects of type t: the reverse relations pointing at t
RelatedObjectsOfType ==
  [t \in DOMAIN RowsOfType |->
     CASE t = "A" -> {[related_model |-> "B", on_delete |-> "CASCADE"],
                      [related_model |-> "D", on_delete |-> "DO_NOTHING"],
                      [related_model |-> "E", on_delete |-> "CASCADE"]}
       [] t = "B" -> {[related_model |-> "C", on_delete |-> "CASCADE"]}
       [] OTHER -> {}]

RelatedObjects(t) == RelatedObjectsOfType[t]

\* issubclass(related_model, SoftDeleteModel)
IsSoftDeleteModel(t) == t \in {"A", "B", "C", "D"}

Slots == 1..NumSlots

\* deleted_at = None
None == <<>>

VARIABLES
  db,        \* the table rows: exists, is_deleted, deleted_at
  inst,      \* the in-memory instances held by callers
  clock,     \* the value now() returns
  last,      \* the last call made and what it returned
  req,       \* the two concurrent requests on one record: position and own copy
  lastCall   \* per instance: "written" when delete() was called on it and wrote
             \* its record, and restore() was not called on that record afterwards

vars == <<db, inst, clock, last, req, lastCall>>

\* ---- field values ----

\* is_deleted = BooleanField(default=False), deleted_at = DateTimeField(null=True)
FieldDefaults == [is_deleted |-> FALSE, deleted_at |-> None]

SoftDeleteValues_NoStamp(t) == [is_deleted |-> TRUE, deleted_at |-> None]

\* update(is_deleted=True, deleted_at=now())
SoftDeleteValues(t) == [is_deleted |-> TRUE, deleted_at |-> <<t>>]

\* update(is_deleted=False, deleted_at=None)
RestoreValues == [is_deleted |-> FALSE, deleted_at |-> None]

\* now()
Now == clock

AbsentRow == [exists |-> FALSE, is_deleted |-> FALSE, deleted_at |-> None]

Row(v) == [exists |-> TRUE, is_deleted |-> v.is_deleted, deleted_at |-> v.deleted_at]

Update_Unfiltered(d, S, v) == [r \in Rows |-> IF d[r].exists THEN Row(v) ELSE d[r]]

\* QuerySet.update(**v) over the rows S: every row of S that is stored gets v
Update(d, S, v) == [r \in Rows |-> IF r \in S /\ d[r].exists THEN Row(v) ELSE d[r]]

\* ---- SoftDeleteQuerySet filters ----

\* SoftDeleteQuerySet.deleted: filter(is_deleted=True)
deleted(d, S) == {r \in S : d[r].is_deleted = TRUE}

active_All(d, S) == S

\* SoftDeleteQuerySet.active: filter(is_deleted=False)
active(d, S) == {r \in S : d[r].is_deleted = FALSE}

\* SoftDeleteQuerySet(self.model, using=self._db): every stored row of the type
AllRows(d, t) == {r \in RowsOf(t) : d[r].exists}

\* ---- SoftDeleteManager ----

get_queryset_Unfiltered(d, t) == AllRows(d, t)

\* SoftDeleteManager.get_queryset (Model.objects)
get_queryset(d, t) == active(d, AllRows(d, t))

\* SoftDeleteManager.get_all
get_all(d, t) == AllRows(d, t)

deleted_only_Unfiltered(d, t) == AllRows(d, t)

\* SoftDeleteManager.deleted_only
deleted_only(d, t) == deleted(d, AllRows(d, t))

Accessors == {"objects", "get_all", "deleted_only"}

Accessor(acc, d, t) ==
  CASE acc = "objects" -> get_queryset(d, t)
    [] acc = "get_all" -> get_all(d, t)
    [] acc = "deleted_only" -> deleted_only(d, t)

\* ---- the reverse related manager ----

\* the attributes a manager class offers to hasattr()
ManagerAttrs(cls) ==
  IF cls = "SoftDeleteManager" THEN {"all", "get_all", "deleted_only"} ELSE {"all"}

\* the managers of SoftDeleteModel in declaration order
DeclaredManagers == <<"Manager", "SoftDeleteManager">>

\* _default_manager: the first manager declared; the reverse accessor
\* (self.<related_name>) is built from its class
DefaultManagerClass == DeclaredManagers[1]

\* related_manager.all(): the stored rows of the related type whose
\* ForeignKey points at r, as the manager class enumerates them
RelatedAll(d, r, rel) ==
  LET S == {c \in AllRows(d, rel.related_model) : Parent(c) = r}
  IN  IF DefaultManagerClass = "SoftDeleteManager" THEN active(d, S) ELSE S

\* ---- history ----
NoCall == [op |-> "none", slot |-> 0, outcome |-> "none", ret |-> 0, prev |-> "none"]

\* the call recorded in l, as the predecessor of a call on slot i
PrevOf(l, i) ==
  IF i # 0 /\ l.slot = i /\ l.outcome = "ok" /\ l.op = "delete" THEN "delete" ELSE "none"

Call(op, i, outcome) ==
  [NoCall EXCEPT !.op = op, !.slot = i, !.outcome = outcome, !.prev = PrevOf(last, i)]

QSCall(op, ret) == [NoCall EXCEPT !.op = op, !.outcome = "ok", !.ret = ret]

\* a slot that holds no instance a caller can use
NoInst == [pk |-> NoPk, is_deleted |-> FALSE, deleted_at |-> None]

\* the two requests, named by the method each one calls
Requests == {"delete", "restore"}

\* a request that is not running
NoRequest == [pc |-> "idle", is_deleted |-> FALSE, deleted_at |-> None, loaded |-> FALSE]

\* ---- initial state ----
\* the rows created so far
Created == {"a1", "b1", "b2"}

\* every row created has the field defaults; no instance is loaded
Init ==
  /\ db = [r \in Rows |-> IF r \in Created THEN Row(FieldDefaults) ELSE AbsentRow]
  /\ inst = [i \in Slots |-> NoInst]
  /\ clock = 1
  /\ last = NoCall
  /\ req = [q \in Requests |-> NoRequest]
  /\ lastCall = [i \in Slots |-> "none"]

\* ---- actions ----

\* time passes
Tick ==
  /\ clock < MaxClock
  /\ clock' = clock + 1
  /\ UNCHANGED <<db, inst, last, req, lastCall>>

\* a caller fetches row r through one of the manager's accessors
\* (Model.objects.get(pk=r), Model.objects.get_all().get(pk=r), ...)
Get(i, acc, r) ==
  /\ r \in Accessor(acc, db, TypeOf(r))
  /\ inst' = [inst EXCEPT ![i] = [pk |-> r, is_deleted |-> db[r].is_deleted,
                                  deleted_at |-> db[r].deleted_at]]
  /\ last' = [NoCall EXCEPT !.op = "get", !.outcome = "ok"]
  /\ lastCall' = [lastCall EXCEPT ![i] = "none"]
  /\ UNCHANGED <<db, clock, req>>

\* ---- Model.save / Model.delete of the ORM ----

\* Model.save() raises IntegrityError when the row has to be inserted and the
\* row its ForeignKey points to is not stored
SaveOk(d, r) == d[r].exists \/ Parent(r) = NoPk \/ d[Parent(r)].exists

Save_RolledBack(d, in) == d

\* Model.save(): UPDATE the row with the instance's fields, INSERT it when no
\* row has the instance's pk
Save(d, in) == [d EXCEPT ![in.pk] = Row(in)]

\* the collector of Model.delete / QuerySet.delete: the rows S and every row
\* reaching one of them through on_delete=CASCADE ForeignKeys
RECURSIVE Collect(_, _)
Collect(d, S) ==
  LET more == {c \in Rows : /\ d[c].exists
                            /\ Parent(c) \in S
                            /\ \E rel \in RelatedObjects(TypeOf(Parent(c))) :
                                 /\ rel.related_model = TypeOf(c)
                                 /\ rel.on_delete = "CASCADE"}
  IN  IF more \subseteq S THEN S ELSE Collect(d, S \cup more)

Remove_AsSoftDelete(d, S) == Update(d, S, SoftDeleteValues(1))

\* the physical delete: the collected rows leave the table
Remove(d, S) == [r \in Rows |-> IF r \in S THEN AbsentRow ELSE d[r]]

\* ---- SoftDeleteModel ----

SoftDeleteGuard_Never(in) == FALSE

SoftDeleteGuard_Stored(in) == db[in.pk].is_deleted = TRUE

\* _soft_delete: if self.is_deleted is True: return
SoftDeleteGuard(in) == in.is_deleted = TRUE

RestoreGuard_Never(in) == FALSE

RestoreGuard_Stored(in) == ~db[in.pk].is_deleted

\* restore: if not self.is_deleted: return
RestoreGuard(in) == ~in.is_deleted

\* _soft_delete: self.is_deleted = True; self.deleted_at = now()
SetDeleted(in, t) == [in EXCEPT !.is_deleted = TRUE, !.deleted_at = <<t>>]

SetRestored_KeepStamp(in) == [in EXCEPT !.is_deleted = FALSE]

\* restore: self.is_deleted = False; self.deleted_at = None
SetRestored(in) == [in EXCEPT !.is_deleted = FALSE, !.deleted_at = None]

SoftDeleteCascade_NotCascade(d, r) ==
  UNION {RelatedAll(d, r, rel) :
           rel \in {x \in RelatedObjects(TypeOf(r)) :
                      /\ x.on_delete # "CASCADE"
                      /\ "all" \in ManagerAttrs(DefaultManagerClass)
                      /\ IsSoftDeleteModel(x.related_model)}}

SoftDeleteCascade_Recursive(d, r) ==
  LET Rel(t) == {x \in RelatedObjects(t) :
                   /\ x.on_delete = "CASCADE"
                   /\ "all" \in ManagerAttrs(DefaultManagerClass)
                   /\ IsSoftDeleteModel(x.related_model)}
      kids == UNION {RelatedAll(d, r, rel) : rel \in Rel(TypeOf(r))}
  IN  kids \cup UNION {UNION {RelatedAll(d, k, rel) : rel \in Rel(TypeOf(k))} : k \in kids}

\* the loop of _soft_delete: the rows related_manager.all() yields for the
\* CASCADE relations whose accessor has "all" and whose model is soft-deletable
SoftDeleteCascade(d, r) ==
  UNION {RelatedAll(d, r, rel) :
           rel \in {x \in RelatedObjects(TypeOf(r)) :
                      /\ x.on_delete = "CASCADE"
                      /\ "all" \in ManagerAttrs(DefaultManagerClass)
                      /\ IsSoftDeleteModel(x.related_model)}}

\* the loop of restore: the rows related_manager.all() yields for the CASCADE
\* relations whose accessor has "deleted_only" and whose model is soft-deletable
RestoreCascade(d, r) ==
  UNION {RelatedAll(d, r, rel) :
           rel \in {x \in RelatedObjects(TypeOf(r)) :
                      /\ x.on_delete = "CASCADE"
                      /\ "deleted_only" \in ManagerAttrs(DefaultManagerClass)
                      /\ IsSoftDeleteModel(x.related_model)}}

\* restore() was called on the records S: the instances holding them forget
\* their delete()
Restored(lc, S) == [j \in Slots |-> IF inst[j].pk \in S THEN "none" ELSE lc[j]]

\* SoftDeleteModel.delete -> _soft_delete on the instance in slot i
SoftDeleteModel_delete(i) ==
  LET in == inst[i]
      r == in.pk
      in2 == SetDeleted(in, Now)
  IN  /\ r # NoPk
      /\ IF SoftDeleteGuard(in)
         THEN /\ last' = Call("delete", i, "noop")
              /\ UNCHANGED <<db, inst, lastCall>>
         ELSE /\ inst' = [inst EXCEPT ![i] = in2]
              /\ IF SaveOk(db, r)
                 THEN LET d1 == Save(db, in2)
                          C == SoftDeleteCascade(d1, r)
                      IN  /\ db' = Update(d1, C, SoftDeleteValues(Now))
                          /\ last' = Call("delete", i, "ok")
                          /\ lastCall' = [lastCall EXCEPT ![i] = "written"]
                 ELSE /\ last' = Call("delete", i, "error")
                      /\ UNCHANGED <<db, lastCall>>
      /\ UNCHANGED <<clock, req>>

\* the relations the loop of _soft_delete calls update() for
SoftDeleteRelations(t) ==
  {x \in RelatedObjects(t) : /\ x.on_delete = "CASCADE"
                             /\ "all" \in ManagerAttrs(DefaultManagerClass)
                             /\ IsSoftDeleteModel(x.related_model)}

\* SoftDeleteModel.delete -> _soft_delete on the instance in slot i when the
\* database refuses the update() of the loop: save() has written the record,
\* no transaction encloses the two writes, and the exception leaves
\* _soft_delete before any related record is written
SoftDeleteModel_delete_raises(i) ==
  LET in == inst[i]
      r == in.pk
      in2 == SetDeleted(in, Now)
  IN  /\ r # NoPk
      /\ ~SoftDeleteGuard(in)
      /\ SaveOk(db, r) = TRUE
      /\ SoftDeleteRelations(TypeOf(r)) # {}
      /\ inst' = [inst EXCEPT ![i] = in2]
      /\ db' = Save(db, in2)
      /\ last' = Call("delete", i, "raised")
      /\ lastCall' = [lastCall EXCEPT ![i] = "written"]
      /\ UNCHANGED <<clock, req>>

\* SoftDeleteModel.restore on the instance in slot i
SoftDeleteModel_restore(i) ==
  LET in == inst[i]
      r == in.pk
      in2 == SetRestored(in)
  IN  /\ r # NoPk
      /\ IF RestoreGuard(in)
         THEN /\ last' = Call("restore", i, "noop")
              /\ lastCall' = Restored(lastCall, {r})
              /\ UNCHANGED <<db, inst>>
         ELSE /\ inst' = [inst EXCEPT ![i] = in2]
              /\ IF SaveOk(db, r)
                 THEN LET d1 == Save(db, in2)
                          C == RestoreCascade(d1, r)
                      IN  /\ db' = Update(d1, C, RestoreValues)
                          /\ last' = Call("restore", i, "ok")
                          /\ lastCall' = Restored(lastCall, {r} \cup C)
                 ELSE /\ last' = Call("restore", i, "error")
                      /\ lastCall' = Restored(lastCall, {r})
                      /\ UNCHANGED db
      /\ UNCHANGED <<clock, req>>

\* SoftDeleteModel.hard_delete on the instance in slot i: Model.delete()
\* removes the row and what the collector gathers, and clears the instance's
\* pk; the caller makes no further call on the instance
SoftDeleteModel_hard_delete(i) ==
  LET r == inst[i].pk
      S == {c \in Collect(db, {r}) : db[c].exists}
  IN  /\ r # NoPk
      /\ db' = Remove(db, S)
      /\ inst' = [inst EXCEPT ![i] = NoInst]
      /\ last' = [NoCall EXCEPT !.op = "hard_delete", !.slot = i, !.outcome = "ok"]
      /\ lastCall' = [lastCall EXCEPT ![i] = "none"]
      /\ UNCHANGED <<clock, req>>

\* ---- SoftDeleteQuerySet ----

\* the members of Model.objects.<acc>().filter(pk__in=S)
Members(acc, d, t, S) == Accessor(acc, d, t) \cap S

FiltersOfType == [t \in DOMAIN RowsOfType |-> SUBSET RowsOfType[t] \ {{}}]

Filters(t) == FiltersOfType[t]

\* the collections of type t a caller can build from the manager's accessors
Collections(d, t) == {Members(acc, d, t, S) : acc \in Accessors, S \in Filters(t)}

\* SoftDeleteQuerySet.delete -> _soft_delete on the collection with members M
SoftDeleteQuerySet_delete(M) ==
  /\ db' = Update(db, M, SoftDeleteValues(Now))
  /\ last' = QSCall("qs_delete", Cardinality(M))
  /\ UNCHANGED <<inst, clock, req, lastCall>>

\* SoftDeleteQuerySet.restore on the collection with members M
SoftDeleteQuerySet_restore(M) ==
  /\ db' = Update(db, M, RestoreValues)
  /\ last' = QSCall("qs_restore", 0)
  /\ lastCall' = Restored(lastCall, M)
  /\ UNCHANGED <<inst, clock, req>>

\* SoftDeleteQuerySet.hard_delete on the collection with members M:
\* QuerySet.delete()
SoftDeleteQuerySet_hard_delete(M) ==
  /\ db' = Remove(db, Collect(db, M))
  /\ last' = QSCall("qs_hard_delete", 0)
  /\ UNCHANGED <<inst, clock, req, lastCall>>

Next ==
  \/ Tick
  \/ \E i \in Slots, acc \in Accessors, r \in Rows : Get(i, acc, r)
  \/ \E i \in Slots : SoftDeleteModel_delete(i)
  \/ \E i \in Slots : SoftDeleteModel_restore(i)
  \/ \E i \in Slots : SoftDeleteModel_hard_delete(i)
  \/ \E t \in Types : \E M \in Collections(db, t) : SoftDeleteQuerySet_delete(M)
  \/ \E t \in Types : \E M \in Collections(db, t) : SoftDeleteQuerySet_restore(M)
  \/ \E t \in Types : \E M \in Collections(db, t) : SoftDeleteQuerySet_hard_delete(M)

Spec == Init /\ [][Next]_vars

\* ---- entity delete and restore over every kind of relation ----

\* the rows other rows point at, all of types deriving from SoftDeleteModel
ParentRows == {Parent(c) : c \in Rows} \ {NoPk}

\* every row of the schema has been created with the field defaults
InitRelations ==
  /\ db = [r \in Rows |-> Row(FieldDefaults)]
  /\ inst = [i \in Slots |-> NoInst]
  /\ clock = 1
  /\ last = NoCall
  /\ req = [q \in Requests |-> NoRequest]
  /\ lastCall = [i \in Slots |-> "none"]

NextRelations ==
  \/ Tick
  \/ \E i \in Slots, acc \in Accessors, r \in ParentRows : Get(i, acc, r)
  \/ \E i \in Slots : SoftDeleteModel_delete(i)
  \/ \E i \in Slots : SoftDeleteModel_delete_raises(i)
  \/ \E i \in Slots : SoftDeleteModel_restore(i)

SpecRelations == InitRelations /\ [][NextRelations]_vars

\* ---- two requests calling delete() and restore() on one record ----

\* the record both requests hold a copy of
SharedRow == "a1"

\* the in-memory instance of request q
Copy(q) == [pk |-> SharedRow, is_deleted |-> req[q].is_deleted, deleted_at |-> req[q].deleted_at]

\* request q, holding a copy loaded when the record's is_deleted was f, about
\* to make its call
Loaded(f) ==
  [pc |-> "start", is_deleted |-> f, deleted_at |-> IF f THEN <<1>> ELSE None, loaded |-> f]

\* request q at position pc holding the instance in
At(q, pc, in) ==
  [req EXCEPT ![q] = [pc |-> pc, is_deleted |-> in.is_deleted, deleted_at |-> in.deleted_at,
                      loaded |-> req[q].loaded]]

\* the records are active, or the shared record was deleted with its cascade;
\* each request loaded its copy before or after that delete
InitRequests ==
  /\ clock = 1
  /\ \E stored \in BOOLEAN :
       LET d0 == [r \in Rows |-> IF r \in Created THEN Row(FieldDefaults) ELSE AbsentRow]
       IN  db = IF stored
                THEN Update(d0, {SharedRow} \cup SoftDeleteCascade(d0, SharedRow),
                            SoftDeleteValues(1))
                ELSE d0
  /\ inst = [i \in Slots |-> NoInst]
  /\ last = NoCall
  /\ req \in [Requests -> {Loaded(f) : f \in BOOLEAN}]
  /\ lastCall = [i \in Slots |-> "none"]

\* _soft_delete up to save(): the guard, then the two assignments
SoftDeleteModel_delete_begin ==
  LET q == "delete"
      in == Copy(q)
  IN  /\ req[q].pc = "start"
      /\ req' = IF SoftDeleteGuard(in)
                THEN At(q, "returned", in)
                ELSE At(q, "save", SetDeleted(in, Now))
      /\ UNCHANGED <<db, inst, clock, last, lastCall>>

\* _soft_delete: self.save()
SoftDeleteModel_delete_save ==
  LET q == "delete"
  IN  /\ req[q].pc = "save"
      /\ db' = Save(db, Copy(q))
      /\ req' = At(q, "cascade", Copy(q))
      /\ last' = [NoCall EXCEPT !.op = q, !.outcome = "ok"]
      /\ UNCHANGED <<inst, clock, lastCall>>

\* _soft_delete: the loop over the related objects
SoftDeleteModel_delete_cascade ==
  LET q == "delete"
  IN  /\ req[q].pc = "cascade"
      /\ db' = Update(db, SoftDeleteCascade(db, SharedRow), SoftDeleteValues(Now))
      /\ req' = At(q, "done", Copy(q))
      /\ UNCHANGED <<inst, clock, last, lastCall>>

\* restore up to save(): the guard, then the two assignments
SoftDeleteModel_restore_begin ==
  LET q == "restore"
      in == Copy(q)
  IN  /\ req[q].pc = "start"
      /\ req' = IF RestoreGuard(in)
                THEN At(q, "returned", in)
                ELSE At(q, "save", SetRestored(in))
      /\ UNCHANGED <<db, inst, clock, last, lastCall>>

\* restore: self.save()
SoftDeleteModel_restore_save ==
  LET q == "restore"
  IN  /\ req[q].pc = "save"
      /\ db' = Save(db, Copy(q))
      /\ req' = At(q, "cascade", Copy(q))
      /\ last' = [NoCall EXCEPT !.op = q, !.outcome = "ok"]
      /\ UNCHANGED <<inst, clock, lastCall>>

\* restore: the loop over the related objects
SoftDeleteModel_restore_cascade ==
  LET q == "restore"
  IN  /\ req[q].pc = "cascade"
      /\ db' = Update(db, RestoreCascade(db, SharedRow), RestoreValues)
      /\ req' = At(q, "done", Copy(q))
      /\ UNCHANGED <<inst, clock, last, lastCall>>

NextRequests ==
  \/ Tick
  \/ SoftDeleteModel_delete_begin
  \/ SoftDeleteModel_delete_save
  \/ SoftDeleteModel_delete_cascade
  \/ SoftDeleteModel_restore_begin
  \/ SoftDeleteModel_restore_save
  \/ SoftDeleteModel_restore_cascade

SpecRequests == InitRequests /\ [][NextRequests]_vars

\* ---- properties ----

\* the stored records reached from r through a CASCADE relation whose model
\* is soft-deletable
CascadeChildren(r) ==
  {c \in Rows : /\ Parent(c) = r
                /\ IsSoftDeleteModel(TypeOf(c))
                /\ \E rel \in RelatedObjects(TypeOf(r)) :
                     rel.related_model = TypeOf(c) /\ rel.on_delete = "CASCADE"}

\* the row of the instance the last call was made on
LastRow == IF last.slot \in Slots THEN inst[last.slot].pk ELSE NoPk

\* C1: every stored entity has is_deleted false if and only if its deleted_at
\* is null, in every reachable state.
C1_FlagsAgree ==
  \A r \in Rows : db[r].exists => ((db[r].is_deleted = FALSE) <=> (db[r].deleted_at = None))

C1_Witness ==
  /\ last.op = "restore" /\ last.outcome = "ok"
  /\ \E r \in Rows : db[r].exists /\ db[r].is_deleted /\ db[r].deleted_at # None
  /\ \E r \in Rows : db[r].exists /\ ~db[r].is_deleted

\* C2: delete() on an ACTIVE entity A whose CASCADE-related soft-deletable
\* records are all ACTIVE leaves A deleted and every one of those records
\* deleted.
C2_DeleteCascades ==
  [][\A i \in Slots :
       LET r == inst[i].pk
       IN  ( /\ last'.op = "delete" /\ last'.slot = i /\ last'.outcome = "ok"
             /\ SoftDeleteModel_delete(i)
             /\ ~inst[i].is_deleted
             /\ db[r].exists /\ ~db[r].is_deleted
             /\ \A c \in CascadeChildren(r) : db[c].exists => ~db[c].is_deleted )
           => ( /\ db'[r].exists /\ db'[r].is_deleted
                /\ inst'[i].is_deleted
                /\ \A c \in CascadeChildren(r) : db[c].exists =>
                     db'[c].exists /\ db'[c].is_deleted )]_vars

C2_Witness ==
  /\ last.op = "delete" /\ last.outcome = "ok"
  /\ LastRow = "a1"
  /\ db["a1"].exists /\ db["a1"].is_deleted
  /\ \A c \in CascadeChildren("a1") :
       db[c].exists /\ db[c].is_deleted /\ db[c].deleted_at = db["a1"].deleted_at

\* C3: restore() called right after a delete() that cascaded leaves A active
\* and every record deleted by that cascade active.
C3_RestoreCascades ==
  (last.op = "restore" /\ last.outcome = "ok" /\ last.prev = "delete")
  => ( /\ db[LastRow].exists /\ ~db[LastRow].is_deleted
       /\ \A c \in CascadeChildren(LastRow) : db[c].exists => ~db[c].is_deleted )

\* C4 (as stated): the default accessor returns exactly the stored records
\* whose is_deleted is false, and never an entity for which delete() was
\* called and restore() was not called afterwards.
C4_DefaultExcludesDeleteCalled ==
  /\ \A t \in Types :
       get_queryset(db, t) = {r \in RowsOf(t) : db[r].exists /\ ~db[r].is_deleted}
  /\ \A i \in Slots :
       ( \/ lastCall[i] = "written"
         \/ last.op = "delete" /\ last.slot = i /\ last.outcome \in {"ok", "noop"} )
       => inst[i].pk \notin get_queryset(db, TypeOf(inst[i].pk))

\* C4 (amended): the default accessor returns exactly the stored records
\* whose is_deleted is false, and never an entity on which delete() was
\* called through an instance that was active in memory (so that the call
\* wrote) and restore() was not called afterwards.
C4_DefaultExcludesDeleteWritten ==
  /\ \A t \in Types :
       get_queryset(db, t) = {r \in RowsOf(t) : db[r].exists /\ ~db[r].is_deleted}
  /\ \A i \in Slots :
       lastCall[i] = "written" => inst[i].pk \notin get_queryset(db, TypeOf(inst[i].pk))

C4_Witness ==
  /\ last.op = "delete" /\ last.outcome = "ok"
  /\ lastCall[last.slot] = "written"
  /\ db[LastRow].exists
  /\ \E r \in RowsOf(TypeOf(LastRow)) : r \in get_queryset(db, TypeOf(r))

\* C5: a second delete() in sequence on the same instance writes nothing:
\* the stored records (flags and timestamps, related records included) and
\* the instance are as the first call left them.
C5_DeleteIdempotent ==
  [][\A i \in Slots :
       (last.op = "delete" /\ last.slot = i /\ last'.op = "delete" /\ SoftDeleteModel_delete(i))
       => UNCHANGED <<db, inst>>]_vars

C5_Witness ==
  /\ last.op = "delete" /\ last.outcome = "noop" /\ last.prev = "delete"
  /\ db[LastRow].exists /\ db[LastRow].is_deleted
  /\ db[LastRow].deleted_at # <<clock>>

\* C6: delete() on an active entity followed by restore() leaves the entity,
\* in memory and stored, with is_deleted false and deleted_at null.
C6_DeleteRestoreRoundTrip ==
  (last.op = "restore" /\ last.prev = "delete")
  => ( /\ last.outcome = "ok"
       /\ inst[last.slot].is_deleted = FALSE /\ inst[last.slot].deleted_at = None
       /\ db[LastRow].exists
       /\ db[LastRow].is_deleted = FALSE /\ db[LastRow].deleted_at = None )

C6_Witness ==
  /\ last.op = "restore" /\ last.prev = "delete" /\ last.outcome = "ok"
  /\ db[LastRow].exists /\ ~db[LastRow].is_deleted

\* C7: restore() on an instance that is already active writes nothing: the
\* instance and every stored record are unchanged.
C7_RestoreActiveNoop ==
  [][\A i \in Slots :
       (last'.op = "restore" /\ ~inst[i].is_deleted /\ SoftDeleteModel_restore(i))
       => UNCHANGED <<db, inst>>]_vars

C7_Witness ==
  /\ last.op = "restore" /\ last.outcome = "noop"
  /\ ~inst[last.slot].is_deleted
  /\ \E c \in Rows : db[c].exists /\ db[c].is_deleted

\* C8: whatever the entity's flags were, right after hard_delete() the record
\* is returned by no accessor: not by the default one, not by get_all(), not
\* by deleted_only().
C8_HardDeleteRemoves ==
  [][\A i \in Slots :
       LET r == inst[i].pk
       IN  (last'.op = "hard_delete" /\ SoftDeleteModel_hard_delete(i))
           => ( /\ r \notin get_queryset(db', TypeOf(r))
                /\ r \notin get_all(db', TypeOf(r))
                /\ r \notin deleted_only(db', TypeOf(r)) )]_vars

C8_Witness ==
  /\ last.op = "hard_delete"
  /\ inst[last.slot].pk = NoPk
  /\ \E r \in Rows : ~db[r].exists
  /\ \E r \in Rows : db[r].exists

\* C9: delete() on a collection marks every member deleted at now(), returns
\* the number of members and changes no other record.
C9_CollectionDeleteShallow ==
  [][last'.op = "qs_delete" =>
     \A t \in Types : \A M \in Collections(db, t) :
       SoftDeleteQuerySet_delete(M) =>
         /\ \A r \in M : /\ db'[r].exists /\ db'[r].is_deleted = TRUE
                         /\ db'[r].deleted_at = <<clock>>
         /\ \A r \in Rows \ M : db'[r] = db[r]
         /\ last'.ret = Cardinality(M)]_vars

C9_Witness ==
  /\ last.op = "qs_delete" /\ last.ret = 1
  /\ db["a1"].exists /\ db["a1"].is_deleted /\ db["a1"].deleted_at = <<clock>>
  /\ \A c \in CascadeChildren("a1") : db[c].exists /\ ~db[c].is_deleted

\* the three accessors partition the stored records of every type
Partition(d) ==
  \A t \in Types :
    /\ get_all(d, t) = {r \in RowsOf(t) : d[r].exists}
    /\ deleted_only(d, t) = {r \in RowsOf(t) : d[r].exists /\ d[r].is_deleted}
    /\ get_queryset(d, t) = {r \in RowsOf(t) : d[r].exists /\ ~d[r].is_deleted}
    /\ deleted_only(d, t) \cap get_queryset(d, t) = {}
    /\ deleted_only(d, t) \cup get_queryset(d, t) = get_all(d, t)

\* C10: in every state get_all() returns every stored record, deleted_only()
\* those with is_deleted true, the default accessor those with is_deleted
\* false; the last two are disjoint and cover get_all(); fetching through an
\* accessor changes no record.
C10_AccessorsPartition ==
  /\ []Partition(db)
  /\ [][last'.op = "get" =>
          \A i \in Slots, acc \in Accessors :
            Get(i, acc, inst'[i].pk) => UNCHANGED db]_vars

C10_Witness ==
  /\ last.op = "get"
  /\ deleted_only(db, "B") # {} /\ get_queryset(db, "B") # {}

\* C11: delete() and restore() on an entity A modify only A and the records
\* directly related to A through a CASCADE relation whose type is
\* soft-deletable: records related through a non-CASCADE relation, records of
\* a type without the capability, grandchildren and every other record keep
\* their is_deleted and deleted_at.
C11_OnlyDirectCascade ==
  [][\A i \in Slots :
       LET r == inst[i].pk
       IN  ( /\ last'.op \in {"delete", "restore"} /\ last'.slot = i
             /\ \/ SoftDeleteModel_delete(i)
                \/ SoftDeleteModel_delete_raises(i)
                \/ SoftDeleteModel_restore(i) )
           => \A c \in Rows \ ({r} \cup CascadeChildren(r)) :
                /\ db'[c].is_deleted = db[c].is_deleted
                /\ db'[c].deleted_at = db[c].deleted_at]_vars

C11_Witness ==
  /\ last.op = "delete" /\ last.outcome = "ok" /\ LastRow = "a1"
  /\ db["a1"].is_deleted /\ db["b1"].is_deleted /\ db["b2"].is_deleted
  /\ db["c1"].exists /\ ~db["c1"].is_deleted
  /\ db["d1"].exists /\ ~db["d1"].is_deleted
  /\ db["e1"].exists /\ ~db["e1"].is_deleted

\* C12: delete() is not atomic: when a cascade write fails, the exception
\* reaches the caller after the entity's own write has been persisted and
\* nothing is rolled back: A is stored deleted at now(), the instance is
\* deleted, and no other record has been written, so that A is DELETED while
\* its CASCADE-related records are still ACTIVE.
C12_DeleteNotAtomic ==
  [][\A i \in Slots :
       LET r == inst[i].pk
       IN  ( /\ last'.op = "delete" /\ last'.slot = i /\ last'.outcome = "raised"
             /\ SoftDeleteModel_delete_raises(i) )
           => ( /\ db'[r].exists /\ db'[r].is_deleted /\ db'[r].deleted_at = <<clock>>
                /\ inst'[i].is_deleted
                /\ \A c \in Rows \ {r} : db'[c] = db[c] )]_vars

C12_Witness ==
  /\ last.op = "delete" /\ last.outcome = "raised" /\ LastRow = "a1"
  /\ db["a1"].exists /\ db["a1"].is_deleted
  /\ CascadeChildren("a1") # {}
  /\ \A c \in CascadeChildren("a1") : db[c].exists /\ ~db[c].is_deleted

\* both requests have left their call
Finished == \A q \in Requests : req[q].pc \in {"done", "returned"}

\* C13: delete() and restore() run by two requests on their own copies of
\* one record are not serialized: under every interleaving, once both have
\* finished, the stored is_deleted and deleted_at are those of the call that
\* saved last, and whether a call returned at its guard depends only on the
\* is_deleted its own copy was loaded with, not on what the other call wrote.
C13_LastSaveWins ==
  Finished =>
    /\ last.op \in Requests =>
         /\ db[SharedRow].is_deleted = req[last.op].is_deleted
         /\ db[SharedRow].deleted_at = req[last.op].deleted_at
    /\ req["delete"].pc = "returned" <=> req["delete"].loaded
    /\ req["restore"].pc = "returned" <=> ~req["restore"].loaded

C13_Witness ==
  /\ req["delete"].pc = "done" /\ req["restore"].pc = "done"
  /\ last.op = "restore"
  /\ db[SharedRow].exists /\ ~db[SharedRow].is_deleted
  /\ \A c \in CascadeChildren(SharedRow) : db[c].exists /\ db[c].deleted_at = <<clock>>
  /\ req["delete"].deleted_at # <<clock>>

\* C14: the guards read the in-memory is_deleted, never the stored row:
\* delete() on an instance whose flag is true writes nothing and cascades
\* nothing although the stored row is ACTIVE (made so by a collection
\* restore() or through another instance), and the row stays ACTIVE;
\* restore() on an instance whose flag is false writes nothing although the
\* stored row is DELETED, and the row stays DELETED.
C14_GuardsReadInstance ==
  [][\A i \in Slots :
       LET r == inst[i].pk
       IN  /\ ( /\ last'.op = "delete" /\ last'.slot = i
                /\ SoftDeleteModel_delete(i)
                /\ inst[i].is_deleted = TRUE
                /\ db[r].exists /\ ~db[r].is_deleted )
              => ( /\ db' = db /\ inst' = inst
                   /\ db'[r].exists /\ ~db'[r].is_deleted )
           /\ ( /\ last'.op = "restore" /\ last'.slot = i
                /\ SoftDeleteModel_restore(i)
                /\ inst[i].is_deleted = FALSE
                /\ db[r].exists /\ db[r].is_deleted )
              => ( /\ db' = db /\ inst' = inst
                   /\ db'[r].exists /\ db'[r].is_deleted )]_vars

C14_Witness ==
  /\ last.op = "delete" /\ last.outcome = "noop"
  /\ inst[last.slot].is_deleted = TRUE
  /\ db[LastRow].exists /\ ~db[LastRow].is_deleted
  /\ \A c \in CascadeChildren(LastRow) : db[c].exists /\ ~db[c].is_deleted
  /\ CascadeChildren(LastRow) # {}

\* C15: restore() on a collection obtained from the default accessor changes
\* no record's is_deleted, because every member of such a collection is
\* ACTIVE; a collection restore() that turns a record from DELETED to ACTIVE
\* is one made on a collection obtained from get_all() or deleted_only().
C15_DefaultCollectionRestore ==
  [][last'.op = "qs_restore" =>
       /\ \A t \in Types : \A S \in Filters(t) :
            LET M == Members("objects", db, t, S)
            IN  SoftDeleteQuerySet_restore(M) =>
                  /\ \A r \in M : db[r].is_deleted = FALSE
                  /\ \A r \in Rows : db'[r].is_deleted = db[r].is_deleted
       /\ (\E r \in Rows : db[r].is_deleted /\ ~db'[r].is_deleted) =>
            \E t \in Types : \E S \in Filters(t) : \E acc \in {"get_all", "deleted_only"} :
              LET M == Members(acc, db, t, S)
              IN  /\ \E r \in M : db[r].is_deleted
                  /\ SoftDeleteQuerySet_restore(M)]_vars

C15_Witness ==
  /\ last.op = "qs_restore"
  /\ \E t \in Types :
       /\ Cardinality(get_queryset(db, t)) = 1
       /\ Cardinality(deleted_only(db, t)) = 1
====
